---------------------------- MODULE Spec2Model ----------------------------
(***************************************************************************)
(* A model of ilabs_streamsync/streamsync.py: the StreamSync session       *)
(* (__init__, add_stream, do_syncing, plot_sync_pulses), worker threads     *)
(* that call add_stream on one shared session, and the module function      *)
(* extract_audio_from_video acting on a file system.                        *)
(*                                                                         *)
(* Python values are records [t, parent, stem, suffix]: t is the Python    *)
(* type, and for a str the other fields are pathlib's decomposition of the *)
(* string (parent directory, stem, suffix).  A value that is not a str     *)
(* keeps its literal in "stem".                                            *)
(***************************************************************************)
EXTENDS Integers, Sequences, FiniteSets

VARIABLES
    constructed,  \* TRUE once StreamSync.__init__ has returned normally
    attrs,        \* the attributes of self that have been assigned
    raw,          \* self.raw
    ref_stream,   \* self.ref_stream
    sfreq,        \* self.sfreq
    streams,      \* self.streams: list of (filename, srate, Pulses, Data)
    axes,         \* the titled axes drawn by the last plot_sync_pulses
    lastOp,       \* the operation that ran last
    lastExc,      \* the exception it raised, or "none"
    lastRef,      \* the reference_object given to the last __init__
    lastPulse,    \* the pulse_channel given to the last __init__
    addLog,       \* history: the (stream, channel) of every add_stream call
    workers,      \* per worker thread: its position in add_stream and locals
    fsDirs,       \* file system: the output directories that exist
    fsAudio,      \* file system: the content of each audio file, or Absent
    lastVideo,    \* the path_to_video given to the last extraction
    lastOutDir,   \* the output_dir given to the last extraction
    clobbered     \* history: the audio files written over while they existed

vars == <<constructed, attrs, raw, ref_stream, sfreq, streams, axes, lastOp, lastExc,
          lastRef, lastPulse, addLog, workers, fsDirs, fsAudio, lastVideo,
          lastOutDir, clobbered>>

sessionVars == <<constructed, attrs, raw, ref_stream, sfreq, streams, axes, lastRef,
                 lastPulse, addLog>>
fsVars == <<fsDirs, fsAudio, lastVideo, lastOutDir, clobbered>>

-----------------------------------------------------------------------------
(* Bounds of the model. *)

\* add_stream calls made on one session
MaxCalls == 3
\* worker threads that share one session
NWorkers == 2

-----------------------------------------------------------------------------
(* Python values. *)

PyNone == [t |-> "NoneType", parent |-> "", stem |-> "None", suffix |-> ""]
PyInt(n) == [t |-> "int", parent |-> "", stem |-> n, suffix |-> ""]
PyStr(parent, stem, suffix) ==
    [t |-> "str", parent |-> parent, stem |-> stem, suffix |-> suffix]
EmptyStr == PyStr("", "", "")

\* bool(v): None, 0 and "" are false
Truthy(v) ==
    CASE v.t = "NoneType" -> FALSE
      [] v.t = "int" -> v.stem # "0"
      [] OTHER -> v # EmptyStr

\* type(v) is str
IsStr(v) == v.t = "str"

\* pathlib.Path(v).suffix and pathlib.Path(v).name
PathSuffix(v) == v.suffix
PathName(v) == <<v.stem, v.suffix>>

\* the value of an attribute of self that was never assigned (the list
\* self.streams is <<>> until it is); attrs tells which attributes exist
Unset == [t |-> "unset"]
AllAttrs == {"raw", "ref_stream", "sfreq", "streams"}

-----------------------------------------------------------------------------
(* The recordings on disk that the session reads. *)

MegFif == PyStr("data", "meg", ".fif")
CorruptFif == PyStr("data", "corrupt", ".fif")
MissingFif == PyStr("data", "missing", ".fif")
NotesTxt == PyStr("data", "notes", ".txt")

Cam1Wav == PyStr("audio", "cam1", ".wav")
Cam2Wav == PyStr("audio", "cam2", ".wav")
MissingWav == PyStr("audio", "missing", ".wav")
ClipMp4 == PyStr("video", "clip", ".mp4")

VideoX == PyStr("videos", "x", ".mp4")
OtherX == PyStr("other", "x", ".mov")
VideoGone == PyStr("videos", "gone", ".mp4")

\* the paths for which pathlib.Path(p).exists() holds
DiskPaths == {MegFif, CorruptFif, NotesTxt, Cam1Wav, Cam2Wav, ClipMp4,
              VideoX, OtherX}

\* mne.io.read_raw_fif(p): the recording, or an exception of the library
read_raw_fif(p) ==
    IF p = MegFif
    THEN [exc |-> "none",
          val |-> [t |-> "Raw", file |-> p, sfreq |-> 1000,
                   ch_names |-> {"STI101", "MEG0111"}]]
    ELSE [exc |-> "ValueError", val |-> Unset]

\* raw[pulse_channel]: the (data, times) of a channel the recording has.  For
\* a name it does not have the library either raises or yields None; both
\* outcomes are kept (lookupRaises chooses).
RawGetItem(r, ch, lookupRaises) ==
    IF ch.stem \in r.ch_names
    THEN [exc |-> "none", val |-> [t |-> "channel", file |-> r.file, ch |-> ch.stem]]
    ELSE IF lookupRaises
         THEN [exc |-> "ValueError", val |-> Unset]
         ELSE [exc |-> "none", val |-> PyNone]

\* scipy.io.wavfile.read(stream): (srate, wav_signal) of a stereo file
wavread(stream) ==
    CASE stream = Cam1Wav ->
           [exc |-> "none", srate |-> 44100, ncols |-> 2]
      [] stream = Cam2Wav ->
           [exc |-> "none", srate |-> 48000, ncols |-> 2]
      [] OTHER -> [exc |-> "FileNotFoundError", srate |-> 0, ncols |-> 0]

-----------------------------------------------------------------------------
(* The arguments the operations are called with. *)

RefObjects == {PyNone, PyInt("5"), EmptyStr, MissingFif, NotesTxt, CorruptFif, MegFif}
PulseChannels == {PyNone, PyInt("5"), EmptyStr,
                  PyStr("", "STI101", ""), PyStr("", "NOPE", "")}
StreamArgs == {Cam1Wav, Cam2Wav, MissingWav, ClipMp4}

\* the channel argument of add_stream: None (its default) or a column index
ChanNone == [t |-> "NoneType", n |-> 0]
ChanInt(n) == [t |-> "int", n |-> n]
ChannelArgs == {ChanNone, ChanInt(0), ChanInt(1), ChanInt(2)}

-----------------------------------------------------------------------------
(* StreamSync.__init__ *)

Raise(exc) == [exc |-> exc, raw |-> Unset, ref_stream |-> Unset, sfreq |-> Unset]

\* What the constructor computes from its arguments: the exception of the
\* first check that fails, or the three attributes it goes on to assign.
InitOutcome(reference_object, pulse_channel, lookupRaises) ==
    IF ~Truthy(reference_object) THEN Raise("TypeError")
    ELSE IF ~IsStr(reference_object) THEN Raise("TypeError")
    ELSE IF reference_object \notin DiskPaths THEN Raise("OSError")
    ELSE IF PathSuffix(reference_object) # ".fif" THEN Raise("ValueError")
    ELSE LET r == read_raw_fif(reference_object) IN
      IF r.exc # "none" THEN Raise(r.exc)
      ELSE IF ~Truthy(pulse_channel) THEN Raise("TypeError")
      ELSE IF ~IsStr(pulse_channel) THEN Raise("TypeError")
      ELSE LET c == RawGetItem(r.val, pulse_channel, lookupRaises) IN
        IF c.exc # "none" THEN Raise(c.exc)
        ELSE IF c.val = PyNone THEN Raise("ValueError")
        ELSE [exc |-> "none", raw |-> r.val, ref_stream |-> c.val,
              sfreq |-> [t |-> "float", hz |-> r.val.sfreq]]

\* A constructor that keeps the recording on self as soon as it is loaded,
\* before the pulse channel is checked.
InitKeepsRawEarly(reference_object, pulse_channel, lookupRaises) ==
    /\ ~constructed
    /\ LET o == InitOutcome(reference_object, pulse_channel, lookupRaises)
           loaded == /\ Truthy(reference_object) /\ IsStr(reference_object)
                     /\ reference_object \in DiskPaths
                     /\ PathSuffix(reference_object) = ".fif"
                     /\ read_raw_fif(reference_object).exc = "none"
       IN /\ constructed' = (o.exc = "none")
          /\ attrs' = IF o.exc = "none" THEN AllAttrs
                      ELSE IF loaded THEN {"raw"} ELSE {}
          /\ raw' = IF loaded THEN read_raw_fif(reference_object).val ELSE Unset
          /\ ref_stream' = o.ref_stream
          /\ sfreq' = o.sfreq
          /\ streams' = <<>>
          /\ lastExc' = o.exc
    /\ lastOp' = "__init__"
    /\ lastRef' = reference_object
    /\ lastPulse' = pulse_channel
    /\ UNCHANGED <<axes, addLog, workers, fsVars>>

__init__(reference_object, pulse_channel, lookupRaises) ==
    /\ ~constructed
    /\ LET o == InitOutcome(reference_object, pulse_channel, lookupRaises) IN
          IF o.exc = "none"
          THEN /\ constructed' = TRUE
               /\ attrs' = AllAttrs
               /\ raw' = o.raw
               /\ ref_stream' = o.ref_stream
               /\ sfreq' = o.sfreq
               /\ streams' = <<>>
               /\ lastExc' = "none"
          ELSE /\ UNCHANGED <<constructed, attrs, raw, ref_stream, sfreq, streams>>
               /\ lastExc' = o.exc
    /\ lastOp' = "__init__"
    /\ lastRef' = reference_object
    /\ lastPulse' = pulse_channel
    /\ UNCHANGED <<axes, addLog, workers, fsVars>>

-----------------------------------------------------------------------------
(* StreamSync.add_stream and the extraction it calls *)

\* wav_signal[:, k] of an array with ncols columns: the column a Python index
\* selects, or -1 for an index out of range
Column(ncols, k) ==
    IF k >= 0 /\ k < ncols THEN k
    ELSE IF k < 0 /\ k >= -ncols THEN k + ncols
    ELSE -1

NoData == [exc |-> "none", srate |-> 0, pulses |-> <<>>, data |-> <<>>]

\* (srate, wav_signal[:,channel], wav_signal[:,1-channel])
_extract_data_from_wav(stream, channel) ==
    LET w == wavread(stream) IN
    IF w.exc # "none" THEN [NoData EXCEPT !.exc = w.exc]
    ELSE IF channel.t = "NoneType"
         \* wav_signal[:,None] is a new axis; 1-None is the TypeError
         THEN [NoData EXCEPT !.exc = "TypeError"]
    ELSE IF Column(w.ncols, channel.n) = -1
         THEN [NoData EXCEPT !.exc = "IndexError"]
    ELSE IF Column(w.ncols, 1 - channel.n) = -1
         THEN [NoData EXCEPT !.exc = "IndexError"]
    ELSE [exc |-> "none", srate |-> w.srate,
          pulses |-> <<stream.stem, Column(w.ncols, channel.n)>>,
          data |-> <<stream.stem, Column(w.ncols, 1 - channel.n)>>]

_extract_data_from_stream(stream, channel) ==
    IF PathSuffix(stream) = ".wav"
    THEN _extract_data_from_wav(stream, channel)
    ELSE [NoData EXCEPT !.exc = "TypeError"]

\* An insertion at the head of the list instead of its end.
PrependEntry(list, stream, x) == <<<<stream, x.srate, x.pulses, x.data>>>> \o list

\* self.streams.append((stream, srate, pulses, data))
AppendEntry(list, stream, x) == Append(list, <<stream, x.srate, x.pulses, x.data>>)

LogCall(stream, channel, exc) ==
    Append(addLog, [stream |-> stream, channel |-> channel, exc |-> exc])

\* An add_stream that also takes the stream's sample rate as the session's.
AddStreamSetsSfreq(stream, channel) ==
    /\ constructed
    /\ Len(addLog) < MaxCalls
    /\ LET x == _extract_data_from_stream(stream, channel) IN
         /\ streams' = IF x.exc = "none" THEN AppendEntry(streams, stream, x)
                                         ELSE streams
         /\ sfreq' = IF x.exc = "none" THEN [t |-> "float", hz |-> x.srate]
                                       ELSE sfreq
         /\ lastExc' = x.exc
         /\ addLog' = LogCall(stream, channel, x.exc)
    /\ lastOp' = "add_stream"
    /\ UNCHANGED <<constructed, attrs, raw, ref_stream, axes, lastRef,
                   lastPulse, workers, fsVars>>

\* An add_stream that appends its entry before the extraction can raise.
AddStreamAppendsFirst(stream, channel) ==
    /\ constructed
    /\ Len(addLog) < MaxCalls
    /\ LET x == _extract_data_from_stream(stream, channel) IN
         /\ streams' = AppendEntry(streams, stream, x)
         /\ lastExc' = x.exc
         /\ addLog' = LogCall(stream, channel, x.exc)
    /\ lastOp' = "add_stream"
    /\ UNCHANGED <<constructed, attrs, raw, ref_stream, sfreq, axes, lastRef,
                   lastPulse, workers, fsVars>>

add_stream(stream, channel) ==
    /\ constructed
    /\ Len(addLog) < MaxCalls
    /\ LET x == _extract_data_from_stream(stream, channel) IN
         /\ streams' = IF x.exc = "none" THEN AppendEntry(streams, stream, x)
                                         ELSE streams
         /\ lastExc' = x.exc
         /\ addLog' = LogCall(stream, channel, x.exc)
    /\ lastOp' = "add_stream"
    /\ UNCHANGED <<constructed, attrs, raw, ref_stream, sfreq, axes, lastRef,
                   lastPulse, workers, fsVars>>

-----------------------------------------------------------------------------
(* StreamSync.do_syncing and StreamSync.plot_sync_pulses *)

\* the body of do_syncing is a docstring and two comments
do_syncing ==
    /\ constructed
    /\ lastOp' = "do_syncing"
    /\ lastExc' = "none"
    /\ UNCHANGED <<sessionVars, workers, fsVars>>

\* axset[i+1] of the figure: the pulses of stream i, titled with its file name
DrawAxes(list) ==
    [i \in 1..Len(list) |-> [title |-> PathName(list[i][1]), series |-> list[i][3]]]

plot_sync_pulses ==
    /\ constructed
    /\ axes' = DrawAxes(streams)
    /\ lastOp' = "plot_sync_pulses"
    /\ lastExc' = "none"
    /\ UNCHANGED <<constructed, attrs, raw, ref_stream, sfreq, streams, lastRef,
                   lastPulse, addLog, workers, fsVars>>


-----------------------------------------------------------------------------
(* Worker threads calling add_stream on the shared session.  A thread can   *)
(* be preempted between the two statements of add_stream; list.append is    *)
(* one atomic step of the interpreter.                                      *)

Workers == 1..NWorkers

Idle == [pc |-> "idle", stream |-> PyNone, channel |-> ChanNone, x |-> NoData]
Task(stream, channel) ==
    [pc |-> "line74", stream |-> stream, channel |-> channel, x |-> NoData]

\* srate, pulses, data = self._extract_data_from_stream(stream, channel=channel)
add_stream_line74(w) ==
    /\ workers[w].pc = "line74"
    /\ LET x == _extract_data_from_stream(workers[w].stream, workers[w].channel) IN
         workers' = [workers EXCEPT ![w].x = x,
                        ![w].pc = IF x.exc = "none" THEN "line75" ELSE "raised"]
    /\ UNCHANGED <<sessionVars, lastOp, lastExc, fsVars>>

\* self.streams.append((stream, srate, pulses, data))
add_stream_line75(w) ==
    /\ workers[w].pc = "line75"
    /\ streams' = AppendEntry(streams, workers[w].stream, workers[w].x)
    /\ workers' = [workers EXCEPT ![w].pc = "returned"]
    /\ UNCHANGED <<constructed, attrs, raw, ref_stream, sfreq, axes, lastRef,
                   lastPulse, addLog, lastOp, lastExc, fsVars>>

-----------------------------------------------------------------------------
(* extract_audio_from_video and the file system it acts on *)

\* output_dir strings, as their components: "" and "out"
OutDirArgs == {<<>>, <<"out">>}
VideoArgs == {VideoX, OtherX, VideoGone}

\* audio_file = p.stem + audio_suffix + '.wav'
AudioFile(path_to_video) == <<path_to_video.stem, "_16bit", ".wav">>

\* pathlib.Path(output_dir): a relative directory; Path("") is the working
\* directory
PathOf(output_dir) == [abs |-> FALSE, dir |-> output_dir]

\* PurePath.joinpath(Path(output_dir), Path(audio_file))
JoinPath(output_dir, audio_file) ==
    [abs |-> FALSE, dir |-> output_dir, name |-> audio_file]

\* output_dir + "/" + audio_file: a string that starts with "/" when
\* output_dir is "", which names a file of the root directory
ConcatPath(output_dir, audio_file) ==
    [abs |-> output_dir = <<>>, dir |-> output_dir, name |-> audio_file]

DirOf(path) == [abs |-> path.abs, dir |-> path.dir]

WorkingDir == [abs |-> FALSE, dir |-> <<>>]
RootDir == [abs |-> TRUE, dir |-> <<>>]

AudioPaths ==
    {JoinPath(d, AudioFile(v)) : d \in OutDirArgs, v \in VideoArgs}
      \cup {ConcatPath(d, AudioFile(v)) : d \in OutDirArgs, v \in VideoArgs}

Absent == [kind |-> "absent", src |-> PyNone]
Exists(path) == fsAudio[path].kind # "absent"

\* what the ffmpeg process can do: write the whole file (return code 0), fail
\* before or after it opened the output, or run into the timeout
FfmpegOutcomes == {"ok", "error", "error_partial", "timeout"}

\* subprocess.run(command, timeout=FFMPEG_TIMEOUT_SEC, check=False); -y makes
\* ffmpeg write over a file that exists
RunFfmpeg(path_to_video, output_path, outcome) ==
    IF outcome = "error" \/ DirOf(output_path) \notin fsDirs'
    THEN UNCHANGED <<fsAudio, clobbered>> /\ lastExc' = "none"
    ELSE /\ fsAudio' = [fsAudio EXCEPT ![output_path] =
               [kind |-> IF outcome = "ok" THEN "audio" ELSE "partial",
                src |-> path_to_video]]
         /\ clobbered' = IF Exists(output_path)
                          THEN clobbered \cup {output_path} ELSE clobbered
         /\ lastExc' = IF outcome = "timeout" THEN "TimeoutExpired" ELSE "none"

extract_audio_from_video(path_to_video, output_dir, outcome) ==
    /\ lastOp' = "extract_audio_from_video"
    /\ lastVideo' = path_to_video
    /\ lastOutDir' = output_dir
    /\ UNCHANGED <<sessionVars, workers>>
    /\ LET audio_file == AudioFile(path_to_video) IN
       IF path_to_video \notin DiskPaths
       THEN lastExc' = "ValueError" /\ UNCHANGED <<fsDirs, fsAudio, clobbered>>
       ELSE IF Exists(JoinPath(output_dir, audio_file))
       THEN lastExc' = "Exception" /\ UNCHANGED <<fsDirs, fsAudio, clobbered>>
       ELSE /\ fsDirs' = fsDirs \cup {PathOf(output_dir)}
            /\ RunFfmpeg(path_to_video, ConcatPath(output_dir, audio_file), outcome)

-----------------------------------------------------------------------------
(* The three systems: one session used by one caller, one session shared   *)
(* by worker threads, and the audio extraction.                             *)

NoSession ==
    /\ constructed = FALSE
    /\ attrs = {}
    /\ raw = Unset
    /\ ref_stream = Unset
    /\ sfreq = Unset
    /\ streams = <<>>
    /\ axes = <<>>
    /\ lastRef = PyNone
    /\ lastPulse = PyNone
    /\ addLog = <<>>

EmptyDisk ==
    /\ fsDirs = {WorkingDir, RootDir}
    /\ fsAudio = [p \in AudioPaths |-> Absent]
    /\ lastVideo = PyNone
    /\ lastOutDir = <<>>
    /\ clobbered = {}

Init ==
    /\ NoSession
    /\ EmptyDisk
    /\ workers = [w \in Workers |-> Idle]
    /\ lastOp = "none"
    /\ lastExc = "none"

Next ==
    \/ \E r \in RefObjects, p \in PulseChannels, b \in BOOLEAN : __init__(r, p, b)
    \/ \E s \in StreamArgs, c \in ChannelArgs : add_stream(s, c)
    \/ do_syncing
    \/ plot_sync_pulses

Spec == Init /\ [][Next]_vars

\* the session a successful __init__ leaves, and one stream per worker
ConcInit ==
    /\ LET o == InitOutcome(MegFif, PyStr("", "STI101", ""), TRUE) IN
         /\ constructed = TRUE
         /\ attrs = AllAttrs
         /\ raw = o.raw
         /\ ref_stream = o.ref_stream
         /\ sfreq = o.sfreq
    /\ streams = <<>>
    /\ axes = <<>>
    /\ lastRef = MegFif
    /\ lastPulse = PyStr("", "STI101", "")
    /\ addLog = <<>>
    /\ EmptyDisk
    /\ \E f \in [Workers -> StreamArgs], c \in [Workers -> ChannelArgs] :
         /\ \A v, w \in Workers : v # w => f[v] # f[w]
         /\ workers = [w \in Workers |-> Task(f[w], c[w])]
    /\ lastOp = "__init__"
    /\ lastExc = "none"

ConcNext ==
    \/ \E w \in Workers : add_stream_line74(w)
    \/ \E w \in Workers : add_stream_line75(w)

ConcSpec == ConcInit /\ [][ConcNext]_vars

\* a disk that holds at most one audio file extracted by an earlier run, at
\* a place the function looks for it
FsInit ==
    /\ NoSession
    /\ workers = [w \in Workers |-> Idle]
    /\ lastOp = "none"
    /\ lastExc = "none"
    /\ lastVideo = PyNone
    /\ lastOutDir = <<>>
    /\ clobbered = {}
    /\ \E old \in SUBSET {JoinPath(d, AudioFile(v)) : d \in OutDirArgs, v \in VideoArgs} :
         /\ Cardinality(old) <= 1
         /\ fsAudio = [p \in AudioPaths |->
                         IF p \in old THEN [kind |-> "audio", src |-> VideoX]
                                      ELSE Absent]
         /\ fsDirs = {WorkingDir, RootDir} \cup {DirOf(p) : p \in old}

FsNext ==
    \E v \in VideoArgs, d \in OutDirArgs, o \in FfmpegOutcomes :
        extract_audio_from_video(v, d, o)

FsSpec == FsInit /\ [][FsNext]_vars

-----------------------------------------------------------------------------
(* The claims. *)

\* the add_stream calls that returned normally, in call order
OkCalls == SelectSeq(addLog, LAMBDA c : c.exc = "none")
LastCall == addLog[Len(addLog)]

\* C1: add_stream never raises for a per-stream failure: every call on a
\* session with a valid reference returns normally and leaves a stored
\* result for the stream it was given.
C1_AddStreamNeverRaises ==
    lastOp = "add_stream" =>
        /\ lastExc = "none"
        /\ \E i \in 1..Len(streams) : streams[i][1] = LastCall.stream

\* C2: after any add_stream calls followed by synchronization, every stream
\* that was passed to add_stream, failed ones included, has an entry in the
\* session's collection.
C2_EveryAddedStreamListed ==
    lastOp = "do_syncing" =>
        \A i \in 1..Len(addLog) :
            \E j \in 1..Len(streams) : streams[j][1] = addLog[i].stream

\* C3: the collection preserves insertion order: the entries of self.streams
\* are the streams of the add_stream calls that completed, in call order,
\* and plot_sync_pulses draws them in that order.
C3_InsertionOrder ==
    /\ Len(streams) = Len(OkCalls)
    /\ \A i \in 1..Len(streams) : streams[i][1] = OkCalls[i].stream
    /\ lastOp = "plot_sync_pulses" =>
          /\ Len(axes) = Len(OkCalls)
          /\ \A i \in 1..Len(axes) : axes[i].title = PathName(OkCalls[i].stream)

\* C3 witness: two different streams were added and then plotted.
C3_Witness ==
    /\ lastOp = "plot_sync_pulses"
    /\ Len(streams) >= 2
    /\ streams[1][1] # streams[2][1]

\* C4: the collection holds at most one entry per stream id: the number of
\* entries equals the number of distinct stream ids added.
C4_OneEntryPerStream ==
    Len(streams) = Cardinality({streams[i][1] : i \in 1..Len(streams)})

\* C5: the reference is established when the session is created and no
\* later operation, whether it succeeds or raises, changes the stored
\* recording, reference pulse signal or sample rate.
C5_ReferenceImmutable ==
    [][/\ constructed =>
            /\ constructed'
            /\ raw' = raw
            /\ ref_stream' = ref_stream
            /\ sfreq' = sfreq
       /\ (~constructed /\ constructed') =>
            /\ lastOp' = "__init__"
            /\ raw' = read_raw_fif(lastRef').val
            /\ ref_stream' = RawGetItem(raw', lastPulse', TRUE).val
            /\ sfreq' = [t |-> "float", hz |-> raw'.sfreq]]_vars

\* C5 witness: after the reference was set, one add_stream succeeded and a
\* later one raised.
C5_Witness ==
    /\ constructed
    /\ lastOp = "add_stream"
    /\ lastExc # "none"
    /\ Len(streams) > 0

\* the arguments of __init__ that the checks accept
ValidReference(r) ==
    Truthy(r) /\ IsStr(r) /\ r \in DiskPaths /\ PathSuffix(r) = ".fif"
ValidPulse(r, p) ==
    /\ Truthy(p) /\ IsStr(p)
    /\ read_raw_fif(r).exc = "none"
    /\ p.stem \in read_raw_fif(r).val.ch_names

\* C7: a session creation with a bad reference or pulse channel raises and
\* sets no session state; hence whenever a stream has been added, a valid
\* reference was loaded first.
C7_ReferenceFailsLoudly ==
    /\ (lastOp = "__init__"
          /\ ~(ValidReference(lastRef) /\ ValidPulse(lastRef, lastPulse))) =>
          lastExc # "none" /\ ~constructed
    /\ ~constructed =>
          /\ attrs = {}
          /\ raw = Unset /\ ref_stream = Unset /\ sfreq = Unset
          /\ streams = <<>> /\ addLog = <<>>
    /\ (Len(addLog) > 0 \/ Len(streams) > 0) =>
          /\ constructed
          /\ attrs = AllAttrs
          /\ ValidReference(lastRef) /\ ValidPulse(lastRef, lastPulse)
          /\ raw = read_raw_fif(lastRef).val

\* C7 witness: the recording loaded, the pulse channel is not one of its
\* channels, and the creation raised.
C7_Witness ==
    /\ lastOp = "__init__"
    /\ lastRef = MegFif
    /\ lastPulse = PyStr("", "NOPE", "")
    /\ lastExc = "ValueError"

AllFinished == \A w \in Workers : workers[w].pc \in {"returned", "raised"}
EntriesFor(stream) == {i \in 1..Len(streams) : streams[i][1] = stream}

\* C8: when every worker has finished, the collection holds exactly one
\* entry for each stream a worker processed, under every interleaving.
C8_OneEntryPerWorker ==
    AllFinished =>
        \A w \in Workers : Cardinality(EntriesFor(workers[w].stream)) = 1

\* C9: extract_audio_from_video never writes over an audio file that exists;
\* a missing video raises ValueError and an existing target raises.
C9_NeverOverwrites ==
    /\ clobbered = {}
    /\ (lastOp = "extract_audio_from_video" /\ lastVideo \notin DiskPaths) =>
          lastExc = "ValueError"

=============================================================================
